---- MODULE Spec2Model ----
(***************************************************************************)
(* Model of sonarqube_line_of_code_analysis.py: the SonarQube facade, the  *)
(* three line-count reports and the command line entry point main().       *)
(*                                                                         *)
(* Text is modelled as a sequence of lines, a line as the tuple of its     *)
(* comma separated fields.  The ncloc values of the server are strings of  *)
(* decimal digits, modelled as sequences of digits (<<1, 0>> is "10").     *)
(***************************************************************************)
EXTENDS Integers, Sequences, FiniteSets, TLC

\* ------------------------------------------------------------------ bounds
\* Largest number of branches the server holds over all projects together.
MaxRows == 3
\* Largest number of leaf files the server answers for one branch.
MaxFiles == 2
\* The x of --top-x-files ranges over -MaxTopN .. MaxTopN.
MaxTopN == 3

ProjectKeyNames == {"A", "B"}
BranchNames == {"main", "feature"}
FilePaths == {"x.py", "y.py", "z.py"}
\* The values the server gives for ncloc: the strings "7" and "10".
RawValues == {<<7>>, <<1, 0>>}

\* --------------------------------------------------------- Python values
None == "None"
\* An exception: its type and the call that raised it.
Exception(type, call) == [type |-> type, call |-> call]
NoErr == Exception("none", "none")
PyStr(s) == [type |-> "str", val |-> s]
PyInt(n) == [type |-> "int", val |-> n]

RECURSIVE ParseDigits(_)
ParseDigits(ds) ==
  IF Len(ds) = 0 THEN 0
  ELSE 10 * ParseDigits(SubSeq(ds, 1, Len(ds) - 1)) + ds[Len(ds)]

\* int(v): an int is returned as it is, a string of digits is parsed.
int(v) == IF v.type = "int" THEN v.val ELSE ParseDigits(v.val)

RECURSIVE FormatNat(_)
FormatNat(n) == IF n < 10 THEN <<n>> ELSE Append(FormatNat(n \div 10), n % 10)

\* What an f-string makes of a value: a string is copied, an int is printed.
Format(v) == IF v.type = "str" THEN v.val ELSE FormatNat(v.val)

RECURSIVE SumSeq(_)
SumSeq(s) == IF s = <<>> THEN 0 ELSE s[1] + SumSeq(Tail(s))

\* Mutant of max: max(list, default=0), which raises nothing.
max_default_zero(s) ==
  [raises |-> FALSE,
   value |-> IF s = <<>> THEN 0
             ELSE CHOOSE m \in {s[i] : i \in 1..Len(s)} :
                    \A i \in 1..Len(s) : s[i] <= m]

\* max(list) of a list of ints: a ValueError when the list is empty.
max(s) ==
  IF s = <<>> THEN [raises |-> TRUE, value |-> 0]
  ELSE [raises |-> FALSE,
        value |-> CHOOSE m \in {s[i] : i \in 1..Len(s)} :
                    \A i \in 1..Len(s) : s[i] <= m]

\* Mutant of SliceTo: s[:n + 1], one element too many.
SliceToInclusive(s, n) ==
  IF n + 1 >= 0 THEN SubSeq(s, 1, IF n + 1 < Len(s) THEN n + 1 ELSE Len(s))
  ELSE SubSeq(s, 1, IF Len(s) + n + 1 > 0 THEN Len(s) + n + 1 ELSE 0)

\* s[:n] of Python: a negative n counts from the end.
SliceTo(s, n) ==
  IF n >= 0 THEN SubSeq(s, 1, IF n < Len(s) THEN n ELSE Len(s))
  ELSE SubSeq(s, 1, IF Len(s) + n > 0 THEN Len(s) + n ELSE 0)

\* ------------------------------------------------------------ the server
Measures == {<<>>} \cup {<<[metric |-> "ncloc", value |-> v]>> : v \in RawValues}

UniqueSeqs(S, n) ==
  UNION {{s \in [1..k -> S] : \A i, j \in 1..k : s[i] = s[j] => i = j} : k \in 0..n}

\* The branches of one project: distinct names, each with its measures.
BranchLists ==
  UNION {{[i \in 1..Len(ns) |-> [name |-> ns[i], measures |-> ms[i]]] :
            ms \in [1..Len(ns) -> Measures]} :
         ns \in UniqueSeqs(BranchNames, Cardinality(BranchNames))}

TotalRows(bs) == SumSeq([i \in 1..Len(bs) |-> Len(bs[i])])

\* The projects of a server: distinct keys, at most maxRows branches in all.
ProjectWorlds(maxRows) ==
  UNION {{[i \in 1..Len(ks) |-> [key |-> ks[i], branches |-> bs[i]]] :
            bs \in {b \in [1..Len(ks) -> BranchLists] : TotalRows(b) <= maxRows}} :
         ks \in UniqueSeqs(ProjectKeyNames, Cardinality(ProjectKeyNames))}

\* The leaf components of the component tree of one branch, in server order.
FileLists(maxFiles) ==
  UNION {{[i \in 1..Len(ps) |-> [path |-> ps[i], measures |-> ms[i]]] :
            ms \in [1..Len(ps) -> Measures]} :
         ps \in UniqueSeqs(FilePaths, maxFiles)}

M(v) == <<[metric |-> "ncloc", value |-> v]>>

\* Two projects; every project has a branch.
ExampleProjects ==
  << [key |-> "A", branches |-> << [name |-> "main", measures |-> M(<<7>>)],
                                   [name |-> "feature", measures |-> M(<<1, 0>>)] >>],
     [key |-> "B", branches |-> << [name |-> "main", measures |-> <<>>] >>] >>

\* The same with a project that has no branch.
ExampleEmptyProject ==
  << [key |-> "A", branches |-> << [name |-> "main", measures |-> M(<<7>>)] >>],
     [key |-> "B", branches |-> <<>>] >>

ExampleFiles ==
  << [path |-> "x.py", measures |-> M(<<1, 0>>)],
     [path |-> "y.py", measures |-> M(<<7>>)] >>

\* Failures of a call of the client library.
GatewayErrors == {"AuthError", "TransportError"}

VARIABLES
  server,          \* the remote SonarQube instance: [projects, files]
  env,             \* os.environ["SONARQUBE_ADMIN_TOKEN"], None when unset
  args,            \* the parsed command line
  file,            \* the content of branch_size_report.csv
  stdout,          \* what was printed, in order
  pc,              \* the position of main()
  token,           \* SonarQubeFacade._token
  started,         \* the reports main() has started, in order
  project_keys, pi, branches, bi,   \* the loops of the two project reports
  branch_results,  \* get_branch_size_report
  number_of_lines, total,           \* get_total_size
  file_sizes,      \* get_top_x_files_report
  report,          \* the report text a report operation returned
  err,             \* the exception main() ended with
  raised           \* the exception the failing call raised

vars == <<server, env, args, file, stdout, pc, token, started, project_keys, pi,
          branches, bi, branch_results, number_of_lines, total, file_sizes,
          report, err, raised>>

world == <<server, env, args>>
locals == <<project_keys, pi, branches, bi, branch_results, number_of_lines,
            total, file_sizes, report>>

REPORT_FILE_PATH == "branch_size_report.csv"
BranchHeader == <<"Project", "Branch", "Number of lines of code">>
TopHeader == <<"Project", "Branch", "Path", "Number of lines of code">>
\* What branch_size_report.csv holds before the program runs.
OldFile == << <<"old", "old", "old">> >>

\* -------------------------------------------------------- SonarQubeFacade
\* Mutant of ResolveToken: the environment variable wins over the argument.
ResolveTokenEnvironmentFirst(explicit, environment) ==
  IF environment # None THEN environment ELSE explicit

\* token if token else os.getenv("SONARQUBE_ADMIN_TOKEN")
ResolveToken(explicit, environment) ==
  IF explicit # "" THEN explicit ELSE environment

get_project_keys ==
  [i \in 1..Len(server.projects) |-> server.projects[i].key]

ProjectOf(project_key) ==
  CHOOSE p \in {server.projects[i] : i \in 1..Len(server.projects)} :
    p.key = project_key

get_branches(project_key) ==
  LET bs == ProjectOf(project_key).branches
  IN [i \in 1..Len(bs) |-> bs[i].name]

BranchOf(project_key, branch_name) ==
  LET bs == ProjectOf(project_key).branches
  IN CHOOSE b \in {bs[i] : i \in 1..Len(bs)} : b.name = branch_name

\* Mutant of get_branch_size: -1 stands for "no measure".
get_branch_size_minus_one(project_key, branch_name) ==
  LET measures == BranchOf(project_key, branch_name).measures
  IN IF Len(measures) > 0 THEN PyStr(measures[1].value) ELSE PyInt(0 - 1)

\* measures[0]["value"] if len(measures) > 0 else 0
get_branch_size(project_key, branch_name) ==
  LET measures == BranchOf(project_key, branch_name).measures
  IN IF Len(measures) > 0 THEN PyStr(measures[1].value) ELSE PyInt(0)

\* component["measures"][0] of a component without measures is an IndexError.
FileSizesIndexError ==
  \E i \in 1..Len(server.files) : Len(server.files[i].measures) = 0

\* Mutant of get_file_sizes: the response is turned round (asc="true").
get_file_sizes_ascending ==
  [i \in 1..Len(server.files) |->
     [identifier |-> server.files[Len(server.files) + 1 - i].path,
      number_of_lines |->
        PyStr(server.files[Len(server.files) + 1 - i].measures[1].value)]]

get_file_sizes ==
  [i \in 1..Len(server.files) |->
     [identifier |-> server.files[i].path,
      number_of_lines |-> PyStr(server.files[i].measures[1].value)]]

\* ------------------------------------------ SonarQubeNumberOfLinesAnalysis
BranchResult(identifier, branch_name, n) ==
  [identifier |-> identifier, branch_name |-> branch_name, number_of_lines |-> n]

\* Mutant of InsertPosition: an ascending sort turned round, which turns the
\* rows of equal value round too.
InsertPositionBeforeEqual(s, x) ==
  Cardinality({i \in 1..Len(s) : s[i].number_of_lines > x.number_of_lines})

\* Where sorted(..., reverse=True) puts x in an already sorted list: behind
\* every element whose key is not smaller (equal keys keep their order).
InsertPosition(s, x) ==
  Cardinality({i \in 1..Len(s) : s[i].number_of_lines >= x.number_of_lines})

RECURSIVE sorted_reverse(_)
sorted_reverse(s) ==
  IF s = <<>> THEN <<>>
  ELSE LET rest == sorted_reverse(SubSeq(s, 1, Len(s) - 1))
           x == s[Len(s)]
           k == InsertPosition(rest, x)
       IN SubSeq(rest, 1, k) \o <<x>> \o SubSeq(rest, k + 1, Len(rest))

BranchRow(result) ==
  <<result.identifier, result.branch_name, FormatNat(result.number_of_lines)>>

\* Mutant of BranchReportText: branches of 0 lines are left out.
HasLines(result) == result.number_of_lines > 0
BranchReportTextSkipsZero(results) ==
  LET rows == sorted_reverse(SelectSeq(results, HasLines))
  IN <<BranchHeader>> \o [i \in 1..Len(rows) |-> BranchRow(rows[i])]

BranchReportText(results) ==
  LET rows == sorted_reverse(results)
  IN <<BranchHeader>> \o [i \in 1..Len(rows) |-> BranchRow(rows[i])]

\* Mutant of AddProject: total += sum(number_of_lines)
AddProjectSum(t, lines) == t + SumSeq(lines)

\* total += max(number_of_lines)
AddProject(t, lines) == t + max(lines).value

TopRow(project_key, branch_name, file_size) ==
  <<project_key, branch_name, file_size.identifier, Format(file_size.number_of_lines)>>

TopRows(sizes, top_x) == SliceTo(sizes, top_x)

TopReportText(project_key, branch_name, sizes, top_x) ==
  LET rows == TopRows(sizes, top_x)
  IN <<TopHeader>> \o
     [i \in 1..Len(rows) |-> TopRow(project_key, branch_name, rows[i])]

\* ------------------------------------------------------------------ Init
TopArgs(maxN) == {<<>>} \cup {<<"A", "main", n>> : n \in (0 - maxN)..maxN}

InitWith(projectWorlds, fileLists, topArgs, tokens) ==
  /\ server \in [projects : projectWorlds, files : fileLists]
  /\ \E k \in tokens :
       /\ env = k[2]
       /\ args \in [branch_size : BOOLEAN, total_size : BOOLEAN,
                     top_x_files : topArgs, sonarqube_admin_token : {k[1]}]
  /\ file = OldFile
  /\ stdout = <<>>
  /\ pc = "start"
  /\ token = None
  /\ started = <<>>
  /\ project_keys = <<>> /\ pi = 0 /\ branches = <<>> /\ bi = 0
  /\ branch_results = <<>> /\ number_of_lines = <<>> /\ total = 0
  /\ file_sizes = <<>> /\ report = <<>>
  /\ err = NoErr /\ raised = NoErr

\* Every server of the bound, one file listing, the token on the command line.
Init ==
  InitWith(ProjectWorlds(MaxRows), {ExampleFiles},
           {<<>>, <<"A", "main", 1>>}, {<<"cli-token", None>>})

\* Every file listing and every x, two servers.
InitTop ==
  InitWith({ExampleProjects, ExampleEmptyProject}, FileLists(MaxFiles),
           TopArgs(MaxTopN), {<<"cli-token", None>>})

\* Every way to give or not to give the token, two servers.
InitCred ==
  InitWith({ExampleProjects, ExampleEmptyProject}, {ExampleFiles},
           {<<>>, <<"A", "main", 1>>},
           {"", "cli-token"} \X {None, "", "env-token"})

\* --------------------------------------------------------------- actions
ResetLocals ==
  /\ project_keys' = <<>> /\ pi' = 0 /\ branches' = <<>> /\ bi' = 0
  /\ branch_results' = <<>> /\ number_of_lines' = <<>> /\ total' = 0
  /\ file_sizes' = <<>> /\ report' = <<>>

\* Mutant of Raise: the report is wrapped in try/except, the exception is
\* noted and main() goes on with the next report.
RaiseAndContinue(e) ==
  /\ raised' = e
  /\ err' = e
  /\ pc' = (IF started[Len(started)] = "branch_size" THEN "main_total_size"
            ELSE IF started[Len(started)] = "total_size" THEN "main_top_x"
            ELSE "done")
  /\ ResetLocals
  /\ UNCHANGED <<world, file, stdout, token, started>>

\* An exception nothing catches: it unwinds main() and ends the process.
Raise(e) ==
  /\ raised' = e
  /\ err' = e
  /\ pc' = "crashed"
  /\ ResetLocals
  /\ UNCHANGED <<world, file, stdout, token, started>>

GatewayFails(call) == \E t \in GatewayErrors : Raise(Exception(t, call))

\* _create_analysis: SonarQubeFacade.__init__ and the analysis object.
CreateAnalysis ==
  /\ pc = "start"
  /\ token' = ResolveToken(args.sonarqube_admin_token, env)
  /\ pc' = "main_branch_size"
  /\ UNCHANGED <<world, file, stdout, started, locals, err, raised>>

\* Mutant of MainBranchSize: the file is opened before the report is built.
MainBranchSizeOpensFileFirst ==
  /\ pc = "main_branch_size"
  /\ IF args.branch_size
       THEN pc' = "bsr_keys" /\ started' = Append(started, "branch_size")
            /\ file' = <<>>
       ELSE pc' = "main_total_size" /\ UNCHANGED <<started, file>>
  /\ UNCHANGED <<world, stdout, token, locals, err, raised>>

\* if args.branch_size: print_in_file_branch_size_report() is entered.
MainBranchSize ==
  /\ pc = "main_branch_size"
  /\ IF args.branch_size
       THEN pc' = "bsr_keys" /\ started' = Append(started, "branch_size")
       ELSE pc' = "main_total_size" /\ UNCHANGED started
  /\ UNCHANGED <<world, file, stdout, token, locals, err, raised>>

BsrProjectKeys ==
  /\ pc = "bsr_keys"
  /\ \/ /\ project_keys' = get_project_keys
        /\ pi' = 1
        /\ branch_results' = <<>>
        /\ pc' = "bsr_branches"
        /\ UNCHANGED <<world, file, stdout, token, started, branches, bi,
                       number_of_lines, total, file_sizes, report, err, raised>>
     \/ GatewayFails("get_project_keys")

\* for project in project_keys: branches = get_branches(project)
BsrBranches ==
  /\ pc = "bsr_branches"
  /\ pi <= Len(project_keys)
  /\ \/ /\ branches' = get_branches(project_keys[pi])
        /\ bi' = 1
        /\ pc' = "bsr_size"
        /\ UNCHANGED <<world, file, stdout, token, started, project_keys, pi,
                       branch_results, number_of_lines, total, file_sizes,
                       report, err, raised>>
     \/ GatewayFails("get_branches")

\* for branch in branches: get_branch_size and append
BsrBranchSize ==
  /\ pc = "bsr_size"
  /\ bi <= Len(branches)
  /\ \/ /\ branch_results' =
             Append(branch_results,
                    BranchResult(project_keys[pi], branches[bi],
                                 int(get_branch_size(project_keys[pi], branches[bi]))))
        /\ bi' = bi + 1
        /\ UNCHANGED <<world, file, stdout, token, started, pc, project_keys, pi,
                       branches, number_of_lines, total, file_sizes, report,
                       err, raised>>
     \/ GatewayFails("get_branch_size")

\* The branches of the project are done: the next project.
BsrNextProject ==
  /\ pc = "bsr_size"
  /\ bi > Len(branches)
  /\ pi' = pi + 1
  /\ pc' = "bsr_branches"
  /\ UNCHANGED <<world, file, stdout, token, started, project_keys, branches, bi,
                 branch_results, number_of_lines, total, file_sizes, report,
                 err, raised>>

\* The projects are done: sort, render and return the report.
BsrReturn ==
  /\ pc = "bsr_branches"
  /\ pi > Len(project_keys)
  /\ report' = BranchReportText(branch_results)
  /\ project_keys' = <<>> /\ pi' = 0 /\ branches' = <<>> /\ bi' = 0
  /\ branch_results' = <<>>
  /\ pc' = "file_open"
  /\ UNCHANGED <<world, file, stdout, token, started, number_of_lines, total,
                 file_sizes, err, raised>>

\* open(REPORT_FILE_PATH, "w") truncates the file.
FileOpen ==
  /\ pc = "file_open"
  /\ file' = <<>>
  /\ pc' = "file_write"
  /\ UNCHANGED <<world, stdout, token, started, locals, err, raised>>

FileWrite ==
  /\ pc = "file_write"
  /\ file' = report
  /\ pc' = "file_confirm"
  /\ UNCHANGED <<world, stdout, token, started, locals, err, raised>>

FileConfirm ==
  /\ pc = "file_confirm"
  /\ stdout' = Append(stdout, [kind |-> "branch_size",
                               text |-> << <<"Report written to file", REPORT_FILE_PATH>> >>])
  /\ report' = <<>>
  /\ pc' = "main_total_size"
  /\ UNCHANGED <<world, file, token, started, project_keys, pi, branches, bi,
                 branch_results, number_of_lines, total, file_sizes, err, raised>>

\* if args.total_size: get_total_size() is entered.
MainTotalSize ==
  /\ pc = "main_total_size"
  /\ IF args.total_size
       THEN pc' = "ts_keys" /\ started' = Append(started, "total_size")
       ELSE pc' = "main_top_x" /\ UNCHANGED started
  /\ UNCHANGED <<world, file, stdout, token, locals, err, raised>>

TsProjectKeys ==
  /\ pc = "ts_keys"
  /\ \/ /\ project_keys' = get_project_keys
        /\ pi' = 1
        /\ total' = 0
        /\ pc' = "ts_branches"
        /\ UNCHANGED <<world, file, stdout, token, started, branches, bi,
                       branch_results, number_of_lines, file_sizes, report,
                       err, raised>>
     \/ GatewayFails("get_project_keys")

TsBranches ==
  /\ pc = "ts_branches"
  /\ pi <= Len(project_keys)
  /\ \/ /\ branches' = get_branches(project_keys[pi])
        /\ bi' = 1
        /\ number_of_lines' = <<>>
        /\ pc' = "ts_size"
        /\ UNCHANGED <<world, file, stdout, token, started, project_keys, pi,
                       branch_results, total, file_sizes, report, err, raised>>
     \/ GatewayFails("get_branches")

\* One element of the list comprehension.
TsBranchSize ==
  /\ pc = "ts_size"
  /\ bi <= Len(branches)
  /\ \/ /\ number_of_lines' =
             Append(number_of_lines,
                    int(get_branch_size(project_keys[pi], branches[bi])))
        /\ bi' = bi + 1
        /\ UNCHANGED <<world, file, stdout, token, started, pc, project_keys, pi,
                       branches, branch_results, total, file_sizes, report,
                       err, raised>>
     \/ GatewayFails("get_branch_size")

\* total += max(number_of_lines)
TsAddMax ==
  /\ pc = "ts_size"
  /\ bi > Len(branches)
  /\ IF max(number_of_lines).raises
       THEN Raise(Exception("ValueError", "max"))
       ELSE /\ total' = AddProject(total, number_of_lines)
            /\ pi' = pi + 1
            /\ pc' = "ts_branches"
            /\ UNCHANGED <<world, file, stdout, token, started, project_keys,
                           branches, bi, branch_results, number_of_lines,
                           file_sizes, report, err, raised>>

\* return total
TsReturn ==
  /\ pc = "ts_branches"
  /\ pi > Len(project_keys)
  /\ project_keys' = <<>> /\ pi' = 0 /\ branches' = <<>> /\ bi' = 0
  /\ number_of_lines' = <<>>
  /\ pc' = "ts_print"
  /\ UNCHANGED <<world, file, stdout, token, started, branch_results, total,
                 file_sizes, report, err, raised>>

TsPrint ==
  /\ pc = "ts_print"
  /\ stdout' = Append(stdout, [kind |-> "total_size",
                               text |-> << <<"Total number of lines:", FormatNat(total)>> >>])
  /\ total' = 0
  /\ pc' = "main_top_x"
  /\ UNCHANGED <<world, file, token, started, project_keys, pi, branches, bi,
                 branch_results, number_of_lines, file_sizes, report, err, raised>>

\* if args.top_x_files: split the argument, get_top_x() is entered.
MainTopX ==
  /\ pc = "main_top_x"
  /\ IF args.top_x_files # <<>>
       THEN pc' = "tx_files" /\ started' = Append(started, "top_x_files")
       ELSE pc' = "done" /\ UNCHANGED started
  /\ UNCHANGED <<world, file, stdout, token, locals, err, raised>>

TxFileSizes ==
  /\ pc = "tx_files"
  /\ \/ IF FileSizesIndexError
          THEN Raise(Exception("IndexError", "get_file_sizes"))
          ELSE /\ file_sizes' = get_file_sizes
               /\ pc' = "tx_render"
               /\ UNCHANGED <<world, file, stdout, token, started, project_keys,
                              pi, branches, bi, branch_results, number_of_lines,
                              total, report, err, raised>>
     \/ GatewayFails("get_file_sizes")

TxReturn ==
  /\ pc = "tx_render"
  /\ report' = TopReportText(args.top_x_files[1], args.top_x_files[2],
                             file_sizes, args.top_x_files[3])
  /\ pc' = "tx_print"
  /\ UNCHANGED <<world, file, stdout, token, started, project_keys, pi, branches,
                 bi, branch_results, number_of_lines, total, file_sizes, err,
                 raised>>

TxPrint ==
  /\ pc = "tx_print"
  /\ stdout' = Append(stdout, [kind |-> "top_x_files", text |-> report])
  /\ report' = <<>>
  /\ file_sizes' = <<>>
  /\ pc' = "done"
  /\ UNCHANGED <<world, file, token, started, project_keys, pi, branches, bi,
                 branch_results, number_of_lines, total, err, raised>>

Next ==
  \/ CreateAnalysis
  \/ MainBranchSize \/ BsrProjectKeys \/ BsrBranches \/ BsrBranchSize
  \/ BsrNextProject \/ BsrReturn \/ FileOpen \/ FileWrite \/ FileConfirm
  \/ MainTotalSize \/ TsProjectKeys \/ TsBranches \/ TsBranchSize \/ TsAddMax
  \/ TsReturn \/ TsPrint
  \/ MainTopX \/ TxFileSizes \/ TxReturn \/ TxPrint

Spec == Init /\ [][Next]_vars
SpecTop == InitTop /\ [][Next]_vars
SpecCred == InitCred /\ [][Next]_vars

\* ---------------------------------------------------------------- claims
Range(s) == {s[i] : i \in 1..Len(s)}
Last(s) == s[Len(s)]
SetMax(S) == CHOOSE m \in S : \A x \in S : x <= m

\* The (project, branch) pairs in discovery order: project order first, then
\* the branch order within the project.
RECURSIVE PairsOf(_)
PairsOf(projects) ==
  IF projects = <<>> THEN <<>>
  ELSE LET p == projects[1]
       IN [i \in 1..Len(p.branches) |-> <<p.key, p.branches[i].name>>]
          \o PairsOf(Tail(projects))

Discovery == PairsOf(server.projects)
DiscoveryIndex(row) ==
  CHOOSE k \in 1..Len(Discovery) : Discovery[k] = <<row[1], row[2]>>

\* The branch report has been returned to print_in_file_branch_size_report.
BranchReportReturned == pc \in {"file_open", "file_write", "file_confirm"}
Rows(text) == Tail(text)
Loc(row) == ParseDigits(row[3])
EveryProjectHasBranch ==
  \A i \in 1..Len(server.projects) : Len(server.projects[i].branches) > 0
SomeProjectHasNoBranch == ~EveryProjectHasBranch
NoMeasure(pair) == Len(BranchOf(pair[1], pair[2]).measures) = 0
Printed(kind) == \E i \in 1..Len(stdout) : stdout[i].kind = kind
Crashed == pc = "crashed"
CrashedIn(op) == Crashed /\ started # <<>> /\ Last(started) = op

\* C1: when every project has a branch, get_total_size returns the sum over
\* the projects of get_project_keys of the largest get_branch_size among the
\* project's branches, and never the sum of the branches.
C1_TotalIsSumOfMaxima ==
  (pc = "ts_print" /\ EveryProjectHasBranch) =>
    total = SumSeq([i \in 1..Len(get_project_keys) |->
                      SetMax({int(get_branch_size(get_project_keys[i], b)) :
                                b \in Range(get_branches(get_project_keys[i]))})])

\* Two projects, one of them with two branches of 7 and 10 lines, the other
\* with one branch of 7: the total is 17, not 24.
C1_Witness ==
  /\ pc = "ts_print"
  /\ Len(server.projects) = 2
  /\ Len(server.projects[1].branches) = 2
  /\ \A pair \in Range(Discovery) : ~NoMeasure(pair)
  /\ total = 17

\* C2: the data rows of the branch report are in non-increasing order of
\* loc, and rows of equal loc stand in discovery order.
C2_RowsSortedStable ==
  BranchReportReturned =>
    \A i, j \in 1..Len(Rows(report)) :
      i < j =>
        /\ Loc(Rows(report)[i]) >= Loc(Rows(report)[j])
        /\ Loc(Rows(report)[i]) = Loc(Rows(report)[j]) =>
             DiscoveryIndex(Rows(report)[i]) < DiscoveryIndex(Rows(report)[j])

\* Three rows, the last two tied, and the sort moved the first discovered
\* pair away from the first row.
C2_Witness ==
  /\ pc = "file_open"
  /\ Len(Rows(report)) = 3
  /\ Loc(Rows(report)[1]) > Loc(Rows(report)[2])
  /\ Loc(Rows(report)[2]) = Loc(Rows(report)[3])
  /\ DiscoveryIndex(Rows(report)[1]) # 1

\* C3, as stated: for every integer top_x the top files report has at most
\* top_x data rows, and one row per file when there are fewer than top_x.
C3_AtMostTopN_AnyInteger ==
  pc = "tx_print" =>
    /\ Len(Rows(report)) <= args.top_x_files[3]
    /\ Len(server.files) < args.top_x_files[3] =>
         Len(Rows(report)) = Len(server.files)

\* C3, amended: the same for every top_x >= 0; a negative top_x leaves out
\* the last -top_x files instead.
C3_AtMostTopN_NonNegative ==
  /\ (pc = "tx_print" /\ args.top_x_files[3] >= 0) =>
       /\ Len(Rows(report)) <= args.top_x_files[3]
       /\ Len(server.files) < args.top_x_files[3] =>
            Len(Rows(report)) = Len(server.files)
       /\ Len(server.files) >= args.top_x_files[3] =>
            Len(Rows(report)) = args.top_x_files[3]
  /\ (pc = "tx_print" /\ args.top_x_files[3] < 0) =>
       Len(Rows(report)) =
         (IF Len(server.files) + args.top_x_files[3] > 0
          THEN Len(server.files) + args.top_x_files[3] ELSE 0)

\* More files than top_x: the report is cut.
C3_Witness ==
  /\ pc = "tx_print"
  /\ args.top_x_files[3] = 1
  /\ Len(server.files) = 2
  /\ Len(Rows(report)) = 1

TokenMissing == args.sonarqube_admin_token = "" /\ env = None
FirstCall == {"bsr_keys", "ts_keys", "tx_files"}

\* C5, as stated: the token is the argument when given, else the environment
\* variable; when neither is there, construction succeeds and the first
\* gateway call fails with a ConfigError.
C5_ConfigErrorAtFirstCall ==
  /\ pc # "start" =>
       token = (IF args.sonarqube_admin_token # "" THEN args.sonarqube_admin_token
                ELSE env)
  /\ (TokenMissing /\ started # <<>> /\ pc \notin FirstCall) =>
       (Crashed /\ Len(started) = 1 /\ err.type = "ConfigError")

\* C5, amended: the resolution is as stated and construction never fails,
\* but no ConfigError exists: a failure is whatever a gateway call raises.
C5_TokenResolution ==
  /\ pc # "start" =>
       token = (IF args.sonarqube_admin_token # "" THEN args.sonarqube_admin_token
                ELSE env)
  /\ TokenMissing /\ pc # "start" => token = None
  /\ Crashed => (started # <<>> /\ err.type # "ConfigError")

\* No token at all: the object was built, and the first gateway call failed.
C5_Witness ==
  /\ TokenMissing
  /\ token = None
  /\ Crashed
  /\ Len(started) = 1
  /\ err = Exception("AuthError", "get_project_keys")

ReportOrder == <<"branch_size", "total_size", "top_x_files">>
OrderOf(op) == CHOOSE k \in 1..3 : ReportOrder[k] = op

\* C6: a failure of a gateway call ends main() with that very exception: the
\* failing report returns and prints nothing, and no later report is started.
C6_FailurePropagates ==
  /\ err # NoErr <=> Crashed
  /\ Crashed =>
       /\ err = raised
       /\ report = <<>>
       /\ started # <<>>
       /\ ~Printed(Last(started))
       /\ \A k \in 1..3 :
            k > OrderOf(Last(started)) =>
              (ReportOrder[k] \notin Range(started) /\ ~Printed(ReportOrder[k]))
       /\ ~ENABLED Next

\* The branch report failed in a branch size call; the two other reports
\* were asked for and never started.
C6_Witness ==
  /\ Crashed
  /\ err = Exception("TransportError", "get_branch_size")
  /\ args.total_size /\ args.top_x_files # <<>>
  /\ started = <<"branch_size">>
  /\ stdout = <<>>

\* C7: with a project without branches get_total_size returns no total: it
\* ends in the ValueError of max() (unless a gateway call failed before).
C7_EmptyBranchListFails ==
  /\ (pc = "ts_print" \/ Printed("total_size")) => EveryProjectHasBranch
  /\ (Crashed /\ err.type = "ValueError") =>
       (Last(started) = "total_size" /\ SomeProjectHasNoBranch)
  /\ (CrashedIn("total_size") /\ err.type \notin GatewayErrors) =>
       err = Exception("ValueError", "max")

\* The first project has a branch with lines, the second has none.
C7_Witness ==
  /\ CrashedIn("total_size")
  /\ err = Exception("ValueError", "max")
  /\ Len(server.projects) = 2
  /\ Len(server.projects[1].branches) = 2
  /\ Len(server.projects[2].branches) = 0

\* C8: the branch report is the header line and exactly one row for every
\* discovered (project, branch) pair.
C8_HeaderAndOneRowPerPair ==
  BranchReportReturned =>
    /\ report[1] = BranchHeader
    /\ Len(Rows(report)) = Len(Discovery)
    /\ \A k \in 1..Len(Discovery) :
         Cardinality({i \in 1..Len(Rows(report)) :
                        /\ Rows(report)[i][1] = Discovery[k][1]
                        /\ Rows(report)[i][2] = Discovery[k][2]}) = 1
    /\ Len(server.projects) = 0 => report = <<BranchHeader>>
    /\ pc = "file_confirm" => file = report

\* Two projects, one of them without branches, the other with two.
C8_Witness ==
  /\ pc = "file_confirm"
  /\ Len(server.projects) = 2
  /\ \E i \in 1..2 : Len(server.projects[i].branches) = 0
  /\ Len(Rows(file)) = 2

NonIncreasing(values) ==
  \A i, j \in 1..Len(values) : i < j => values[i] >= values[j]
ServerFileLoc == [i \in 1..Len(server.files) |-> ParseDigits(server.files[i].measures[1].value)]
FileSizesReturned == pc \in {"tx_render", "tx_print"}

\* C9, as stated: whatever the server answers, get_file_sizes returns the
\* files in non-increasing order of number_of_lines.
C9_FileSizesSortedForEveryResponse ==
  FileSizesReturned =>
    NonIncreasing([i \in 1..Len(file_sizes) |-> int(file_sizes[i].number_of_lines)])

\* C9, amended: get_file_sizes returns the files in the order of the server's
\* response, and the rows of the report are the first rows of that order; so
\* they are sorted, and the largest, when the response is sorted.
C9_FileSizesInServerOrder ==
  /\ FileSizesReturned =>
       /\ Len(file_sizes) = Len(server.files)
       /\ \A i \in 1..Len(file_sizes) :
            /\ file_sizes[i].identifier = server.files[i].path
            /\ file_sizes[i].number_of_lines.val = server.files[i].measures[1].value
       /\ NonIncreasing(ServerFileLoc) =>
            NonIncreasing([i \in 1..Len(file_sizes) |->
                             int(file_sizes[i].number_of_lines)])
  /\ pc = "tx_print" =>
       /\ Len(Rows(report)) <= Len(server.files)
       /\ \A i \in 1..Len(Rows(report)) :
            /\ Rows(report)[i][3] = server.files[i].path
            /\ Rows(report)[i][4] = server.files[i].measures[1].value
       /\ NonIncreasing(ServerFileLoc) =>
            \A i \in 1..Len(Rows(report)) :
              \A j \in (Len(Rows(report)) + 1)..Len(server.files) :
                ServerFileLoc[i] >= ServerFileLoc[j]

\* A sorted response of two files of different size, cut to the larger one.
C9_Witness ==
  /\ pc = "tx_print"
  /\ Len(server.files) = 2
  /\ ServerFileLoc[1] > ServerFileLoc[2]
  /\ Len(Rows(report)) = 1

BuildingBranchReport == pc \in {"bsr_keys", "bsr_branches", "bsr_size"}

\* C10: branch_size_report.csv is opened only once the report is built: while
\* the gateway calls run, and after one of them failed, the file is as it
\* was and no confirmation is printed.
C10_FileUntouchedUntilReportBuilt ==
  /\ BuildingBranchReport => (file = OldFile /\ ~Printed("branch_size"))
  /\ CrashedIn("branch_size") => (file = OldFile /\ ~Printed("branch_size"))
  /\ file # OldFile =>
       (pc = "file_write" \/ (Len(file) > 0 /\ file[1] = BranchHeader))
  /\ Printed("branch_size") => (Len(file) > 0 /\ file[1] = BranchHeader)

\* The last gateway call of the report failed.
C10_Witness ==
  /\ CrashedIn("branch_size")
  /\ err.call = "get_branch_size"
  /\ Len(Discovery) = 3
  /\ file = OldFile
  /\ stdout = <<>>

====
